---------------------------- MODULE Spec2Model ----------------------------
(***************************************************************************)
(* Listing Lens: the three request handlers of the repository and the      *)
(* response-normalization pipeline they run on the model's reply.           *)
(*                                                                         *)
(*   netlify  - src/netlify/functions/analyzeListing.js (one image)         *)
(*   multi    - src/unnamed/part_000 (1-4 images; uses response, clamp and  *)
(*              extractJson of analyzeListing.js)                           *)
(*   firebase - src/functions/index.js (callable, Gemini)                   *)
(*                                                                         *)
(* JavaScript strings are sequences of one-character strings, so that       *)
(* slice, indexOf, replace, trim and JSON.parse work on characters.  JSON   *)
(* values are tagged records; numbers are exact decimals m / 10^e.          *)
(***************************************************************************)
EXTENDS Integers, Sequences, FiniteSets

VARIABLES handler, request, pc, gatewayCalls, gatewayResult, outText, report, outcome

vars == <<handler, request, pc, gatewayCalls, gatewayResult, outText, report, outcome>>

----------------------------------------------------------------------------
(* Program constants *)

TitleMax == 120
ScoreDefault == 50
ScoreMin == 0
ScoreMax == 100
SummaryMax == 500
MarketMax == 80
ListMax == 8
MinQuestions == 3
RawPreviewMax == 2000
MaxImages == 4
MaxImageLength == 12000000

(* Bounds of the input space *)

MaxRequestImages == 5
SmallImageLength == 1000
MaxListLen == 9

----------------------------------------------------------------------------
(* String literals of the source *)

K_vehicle_title ==
  <<"v","e","h","i","c","l","e","_","t","i","t","l","e">>

K_lens_score ==
  <<"l","e","n","s","_","s","c","o","r","e">>

K_summary ==
  <<"s","u","m","m","a","r","y">>

K_market_value_estimate ==
  <<"m","a","r","k","e","t","_","v","a","l","u","e","_","e","s","t","i","m","a","t","e">>

K_red_flags ==
  <<"r","e","d","_","f","l","a","g","s">>

K_questions_to_ask ==
  <<"q","u","e","s","t","i","o","n","s","_","t","o","_","a","s","k">>

K_mechanic_questions ==
  <<"m","e","c","h","a","n","i","c","_","q","u","e","s","t","i","o","n","s">>

K_toString ==
  <<"t","o","S","t","r","i","n","g">>

UnknownVehicle ==
  <<"U","n","k","n","o","w","n"," ","V","e","h","i","c","l","e">>

NoSummary ==
  <<"N","o"," ","s","u","m","m","a","r","y"," ","r","e","t","u","r","n","e","d",".">>

UnknownValue ==
  <<"U","n","k","n","o","w","n">>

ObjectObject ==
  <<"[","o","b","j","e","c","t"," ","O","b","j","e","c","t","]">>

CannedService ==
  <<"C","a","n"," ","y","o","u"," ","c","o","n","f","i","r","m"," ","t","h","e"," ","s","e",
    "r","v","i","c","e"," ","h","i","s","t","o","r","y"," ","a","n","d"," ","p","r","o","v",
    "i","d","e"," ","r","e","c","e","i","p","t","s","/","l","o","g","b","o","o","k"," ","p",
    "h","o","t","o","s","?">>

CannedAccident ==
  <<"A","n","y"," ","a","c","c","i","d","e","n","t","s",","," ","r","e","p","a","i","r","s",
    ","," ","p","a","i","n","t","w","o","r","k",","," ","f","l","o","o","d","/","h","a","i",
    "l"," ","d","a","m","a","g","e",","," ","o","r"," ","i","n","s","u","r","a","n","c","e",
    " ","c","l","a","i","m","s","?">>

CannedFinance ==
  <<"I","s"," ","t","h","e","r","e"," ","f","i","n","a","n","c","e"," ","o","w","i","n","g",
    ","," ","a","n","d"," ","c","a","n"," ","w","e"," ","d","o"," ","a"," ","P","P","S","R",
    " ","c","h","e","c","k"," ","/"," ","c","l","e","a","r"," ","t","i","t","l","e"," ","c",
    "o","n","f","i","r","m","a","t","i","o","n","?">>

\* The grave accent (U+0060) cannot be written in a string of this language;
\* this one value stands for that one character.
Backtick == "U+0060"

FenceJson ==
  <<Backtick, Backtick, Backtick, "j", "s", "o", "n">>

Fence ==
  <<Backtick, Backtick, Backtick>>

S_null ==
  <<"n","u","l","l">>

S_true ==
  <<"t","r","u","e">>

S_false ==
  <<"f","a","l","s","e">>

S_undefined ==
  <<"u","n","d","e","f","i","n","e","d">>

----------------------------------------------------------------------------
(* JavaScript values *)

Undefined == [t |-> "undefined"]
JNull == [t |-> "null"]
NaN == [t |-> "nan"]
JBool(b) == [t |-> "bool", b |-> b]
JStr(s) == [t |-> "str", s |-> s]
JArr(a) == [t |-> "arr", a |-> a]
JObj(o) == [t |-> "obj", o |-> o]
EmptyObj == JObj([k \in {} |-> Undefined])

\* The decimal m / 10^e in lowest form: no trailing zero among the e
\* fraction digits.
RECURSIVE Dec(_, _)
Dec(m, e) ==
  IF e > 0 /\ m % 10 = 0 THEN Dec(m \div 10, e - 1) ELSE [t |-> "num", m |-> m, e |-> e]

JNum(n) == Dec(n, 0)

RECURSIVE Pow10(_)
Pow10(e) == IF e = 0 THEN 1 ELSE 10 * Pow10(e - 1)

\* a < b, a and b decimals
NumLess(a, b) ==
  LET e == IF a.e > b.e THEN a.e ELSE b.e
  IN  a.m * Pow10(e - a.e) < b.m * Pow10(e - b.e)

\* An exception thrown while a value was computed
TypeError == [t |-> "throw", name |-> "TypeError"]
SyntaxError == [t |-> "throw", name |-> "SyntaxError"]
Thrown(v) == v.t = "throw"

----------------------------------------------------------------------------
(* String primitives *)

Min(S) == CHOOSE x \in S : \A y \in S : x <= y
Max(S) == CHOOSE x \in S : \A y \in S : x >= y

\* s.slice(0, n)
Slice0(s, n) == IF Len(s) <= n THEN s ELSE SubSeq(s, 1, n)

\* s.slice(a, b) with 0 <= a <= b, 0-based, b exclusive
Slice(s, a, b) == SubSeq(s, a + 1, IF b < Len(s) THEN b ELSE Len(s))

\* text.indexOf(c): 0-based index of the first c, -1 when there is none
IndexOf(text, c) ==
  LET S == {i \in 1..Len(text) : text[i] = c}
  IN  IF S = {} THEN -1 ELSE Min(S) - 1

\* text.lastIndexOf(c)
LastIndexOf(text, c) ==
  LET S == {i \in 1..Len(text) : text[i] = c}
  IN  IF S = {} THEN -1 ELSE Max(S) - 1

\* The white space of JSON.parse and (within the modelled alphabet) of trim
WhiteSpace == {" ", "\n", "\t", "\r"}

\* s.trim()
Trim(s) ==
  LET S == {i \in 1..Len(s) : s[i] \notin WhiteSpace}
  IN  IF S = {} THEN <<>> ELSE SubSeq(s, Min(S), Max(S))

\* Does pat occur in s at 1-based position i?
MatchAt(s, pat, i) ==
  /\ i + Len(pat) - 1 <= Len(s)
  /\ \A k \in 1..Len(pat) : s[i + k - 1] = pat[k]

\* s.replace(/pat/g, ""): the leftmost non-overlapping occurrences removed
RECURSIVE RemoveFrom(_, _, _)
RemoveFrom(s, pat, from) ==
  LET M == {i \in from..Len(s) : MatchAt(s, pat, i)}
  IN  IF M = {} THEN SubSeq(s, from, Len(s))
      ELSE SubSeq(s, from, Min(M) - 1) \o RemoveFrom(s, pat, Min(M) + Len(pat))

RemoveAll(s, pat) == RemoveFrom(s, pat, 1)

DigitChars == <<"0", "1", "2", "3", "4", "5", "6", "7", "8", "9">>
Digits == {DigitChars[i] : i \in 1..Len(DigitChars)}
DigitVal(c) == (CHOOSE i \in 1..Len(DigitChars) : DigitChars[i] = c) - 1

\* The value of the digits s[a..b]
RECURSIVE DigitsVal(_, _, _)
DigitsVal(s, a, b) ==
  IF b < a THEN 0 ELSE 10 * DigitsVal(s, a, b - 1) + DigitVal(s[b])

\* The first position >= i of s that holds no digit (Len(s) + 1 when none)
DigitsEnd(s, i) ==
  LET S == {j \in i..Len(s) : s[j] \notin Digits}
  IN  IF S = {} THEN Len(s) + 1 ELSE Min(S)

\* The decimal digits of n >= 0
RECURSIVE NatToString(_)
NatToString(n) ==
  IF n < 10 THEN <<DigitChars[n + 1]>>
  ELSE NatToString(n \div 10) \o <<DigitChars[(n % 10) + 1]>>

\* Number.prototype.toString of the decimal n (plain notation)
NumberToString(n) ==
  LET a  == IF n.m < 0 THEN 0 - n.m ELSE n.m
      ip == NatToString(a \div Pow10(n.e))
      fr == NatToString(Pow10(n.e) + (a % Pow10(n.e)))
      sg == IF n.m < 0 THEN <<"-">> ELSE <<>>
  IN  IF n.e = 0 THEN sg \o ip ELSE sg \o ip \o <<".">> \o Tail(fr)

----------------------------------------------------------------------------
(* JSON.parse, by recursive descent over the characters.  The texts of this   *)
(* model hold no backslash and no exponent, so escape sequences and the      *)
(* exponent part of a number are not part of the grammar below.              *)

Fail == [ok |-> FALSE]
Ok(v, next) == [ok |-> TRUE, v |-> v, next |-> next]

\* The first position >= i of s that holds no white space (Len(s) + 1 when none)
SkipWs(s, i) ==
  LET S == {j \in i..Len(s) : s[j] \notin WhiteSpace}
  IN  IF S = {} THEN Len(s) + 1 ELSE Min(S)

\* A string literal whose opening quote is at i
ParseString(s, i) ==
  LET Q == {j \in (i + 1)..Len(s) : s[j] = "\""}
  IN  IF Q = {} THEN Fail
      ELSE LET j == Min(Q)
           IN  IF \E k \in (i + 1)..(j - 1) : s[k] \in {"\n", "\t", "\r"} THEN Fail
               ELSE Ok(SubSeq(s, i + 1, j - 1), j + 1)

\* A decimal literal has its integer digits in s[a..b-1] and, when s[b] is
\* a point, its fraction digits in s[b+1..c-1]; c = b when there is no point.
FractionEnd(s, b) == IF b <= Len(s) /\ s[b] = "." THEN DigitsEnd(s, b + 1) ELSE b

\* The value of that literal, negated when neg
Decimal(s, neg, a, b, c) ==
  IF c = b THEN Dec(IF neg THEN 0 - DigitsVal(s, a, b - 1) ELSE DigitsVal(s, a, b - 1), 0)
  ELSE Dec((IF neg THEN -1 ELSE 1)
             * (DigitsVal(s, a, b - 1) * Pow10(c - b - 1) + DigitsVal(s, b + 1, c - 1)),
           c - b - 1)

\* A number literal starting at i: -? (0 | [1-9][0-9]*) (. [0-9]+)?
NumberLiteral(s, neg, a, b, c) ==
  IF c = b + 1 THEN Fail ELSE Ok(Decimal(s, neg, a, b, c), c)

NumberFraction(s, neg, a, b) == NumberLiteral(s, neg, a, b, FractionEnd(s, b))

NumberDigits(s, neg, a) ==
  IF a > Len(s) \/ s[a] \notin Digits THEN Fail
  ELSE NumberFraction(s, neg, a, IF s[a] = "0" THEN a + 1 ELSE DigitsEnd(s, a))

ParseNumber(s, i) == NumberDigits(s, s[i] = "-", IF s[i] = "-" THEN i + 1 ELSE i)

RECURSIVE ParseValue(_, _), ParseMembers(_, _, _), ParseElements(_, _, _)

\* The members of an object, the first key expected at i; acc holds the
\* members read so far (a later duplicate key replaces an earlier one)
MemberEnd(s, acc, d) ==
  IF d > Len(s) THEN Fail
  ELSE IF s[d] = "}" THEN Ok(JObj(acc), d + 1)
  ELSE IF s[d] = "," THEN ParseMembers(s, SkipWs(s, d + 1), acc)
  ELSE Fail

MemberValue(s, acc, key, v) ==
  IF ~v.ok THEN Fail
  ELSE MemberEnd(s, [x \in (DOMAIN acc) \cup {key} |-> IF x = key THEN v.v ELSE acc[x]],
                 SkipWs(s, v.next))

MemberColon(s, acc, key, c) ==
  IF c > Len(s) \/ s[c] # ":" THEN Fail ELSE MemberValue(s, acc, key, ParseValue(s, c + 1))

MemberKey(s, acc, k) ==
  IF ~k.ok THEN Fail ELSE MemberColon(s, acc, k.v, SkipWs(s, k.next))

ParseMembers(s, i, acc) ==
  IF i > Len(s) \/ s[i] # "\"" THEN Fail ELSE MemberKey(s, acc, ParseString(s, i))

\* The elements of an array, the first value expected at i
ElementEnd(s, acc, d) ==
  IF d > Len(s) THEN Fail
  ELSE IF s[d] = "]" THEN Ok(JArr(acc), d + 1)
  ELSE IF s[d] = "," THEN ParseElements(s, d + 1, acc)
  ELSE Fail

ElementValue(s, acc, v) ==
  IF ~v.ok THEN Fail ELSE ElementEnd(s, Append(acc, v.v), SkipWs(s, v.next))

ParseElements(s, i, acc) == ElementValue(s, acc, ParseValue(s, i))

\* A JSON value, white space allowed before it
ObjectBody(s, j) ==
  IF j <= Len(s) /\ s[j] = "}" THEN Ok(EmptyObj, j + 1) ELSE ParseMembers(s, j, EmptyObj.o)

ArrayBody(s, j) ==
  IF j <= Len(s) /\ s[j] = "]" THEN Ok(JArr(<<>>), j + 1) ELSE ParseElements(s, j, <<>>)

StringValue(r) == IF r.ok THEN Ok(JStr(r.v), r.next) ELSE Fail

\* The JSON value that starts at i, no white space before it
ValueAt(s, i) ==
  IF i > Len(s) THEN Fail
  ELSE IF s[i] = "{" THEN ObjectBody(s, SkipWs(s, i + 1))
  ELSE IF s[i] = "[" THEN ArrayBody(s, SkipWs(s, i + 1))
  ELSE IF s[i] = "\"" THEN StringValue(ParseString(s, i))
  ELSE IF s[i] = "-" \/ s[i] \in Digits THEN ParseNumber(s, i)
  ELSE IF MatchAt(s, S_true, i) THEN Ok(JBool(TRUE), i + Len(S_true))
  ELSE IF MatchAt(s, S_false, i) THEN Ok(JBool(FALSE), i + Len(S_false))
  ELSE IF MatchAt(s, S_null, i) THEN Ok(JNull, i + Len(S_null))
  ELSE Fail

\* A JSON value, white space allowed before it
ParseValue(s, i) == ValueAt(s, SkipWs(s, i))

\* The value r when nothing but white space follows it
WholeText(text, r) ==
  IF r.ok /\ SkipWs(text, r.next) > Len(text) THEN r.v ELSE SyntaxError

\* JSON.parse(text): the value, or SyntaxError thrown
JSONParse(text) == WholeText(text, ParseValue(text, 1))

----------------------------------------------------------------------------
(* JavaScript conversions used by the normalization block *)

\* report.key: an own property of a parsed object, undefined otherwise
\* (no key read by the handlers exists on a prototype)
Get(v, key) ==
  IF v.t = "obj" /\ key \in DOMAIN v.o THEN v.o[key] ELSE Undefined

\* ToBoolean
Truthy(v) ==
  CASE v.t \in {"undefined", "null", "nan"} -> FALSE
    [] v.t = "bool" -> v.b
    [] v.t = "num" -> v.m # 0
    [] v.t = "str" -> v.s # <<>>
    [] OTHER -> TRUE

RECURSIVE String(_), Join(_, _)

\* Array.prototype.join(",") of the elements a[i..]: null and undefined
\* elements give the empty string
Joined(h, r, last) ==
  IF Thrown(h) THEN h
  ELSE IF Thrown(r) THEN r
  ELSE IF last THEN h
  ELSE JStr(h.s \o <<",">> \o r.s)

Join(a, i) ==
  IF i > Len(a) THEN JStr(<<>>)
  ELSE Joined(IF a[i].t \in {"null", "undefined"} THEN JStr(<<>>) ELSE String(a[i]),
              Join(a, i + 1), i = Len(a))

\* String(v).  An object parsed from JSON whose own "toString" property
\* shadows Object.prototype.toString holds a value that is not callable, and
\* the valueOf it is left with returns the object itself: TypeError.
String(v) ==
  CASE v.t = "undefined" -> JStr(S_undefined)
    [] v.t = "null" -> JStr(S_null)
    [] v.t = "bool" -> JStr(IF v.b THEN S_true ELSE S_false)
    [] v.t = "num" -> JStr(NumberToString(v))
    [] v.t = "str" -> v
    [] v.t = "arr" -> Join(v.a, 1)
    [] v.t = "obj" -> IF K_toString \in DOMAIN v.o THEN TypeError ELSE JStr(ObjectObject)

\* v.toString(): a method call, so it throws on null and undefined
MethodToString(v) ==
  IF v.t \in {"undefined", "null"} THEN TypeError ELSE String(v)

\* The number a string converts to: white space trimmed, "" is 0, an optional
\* sign and a decimal literal; anything else is NaN
NumericLiteral(s, a, b, c) ==
  IF c = Len(s) + 1 /\ (b > a \/ c > b + 1) THEN Decimal(s, s[1] = "-", a, b, c) ELSE NaN

NumericFraction(s, a, b) == NumericLiteral(s, a, b, FractionEnd(s, b))

NumericDigits(s, a) == NumericFraction(s, a, DigitsEnd(s, a))

Trimmed(s) ==
  IF s = <<>> THEN JNum(0) ELSE NumericDigits(s, IF s[1] \in {"+", "-"} THEN 2 ELSE 1)

StringToNumber(s) == Trimmed(Trim(s))

\* The number of the string an array or object converted to
PrimitiveToNumber(p) == IF Thrown(p) THEN p ELSE StringToNumber(p.s)

\* Number(v)
ToNumber(v) ==
  CASE v.t = "undefined" -> NaN
    [] v.t = "null" -> JNum(0)
    [] v.t = "bool" -> JNum(IF v.b THEN 1 ELSE 0)
    [] v.t = "num" -> v
    [] v.t = "str" -> StringToNumber(v.s)
    [] OTHER -> PrimitiveToNumber(String(v))

\* Math.min and Math.max of two numbers
MathMin(a, b) == IF NumLess(b, a) THEN b ELSE a
MathMax(a, b) == IF NumLess(a, b) THEN b ELSE a

clamp(n, min, max) == MathMax(min, MathMin(max, n))

----------------------------------------------------------------------------
(* The normalization block of the two Netlify handlers *)

\* (report.key || fallback).toString().slice(0, n)
\* a || b
OrElse(a, b) == IF Truthy(a) THEN a ELSE b

\* s.slice(0, n) of a string value, an exception passed on
SliceText(s, n) == IF Thrown(s) THEN s ELSE JStr(Slice0(s.s, n))

\* (report.key || fallback).toString().slice(0, n)
TextField(rep, key, fallback, n) ==
  SliceText(MethodToString(OrElse(Get(rep, key), JStr(fallback))), n)

\* Number(x) || 50
NumberOrDefault(n) == IF Thrown(n) THEN n ELSE OrElse(n, JNum(ScoreDefault))

\* clamp(n, 0, 100), an exception passed on
Clamped(n) == IF Thrown(n) THEN n ELSE clamp(n, JNum(ScoreMin), JNum(ScoreMax))

\* clamp(Number(report.lens_score) || 50, 0, 100)
ScoreField(rep) == Clamped(NumberOrDefault(ToNumber(Get(rep, K_lens_score))))

\* a.map(String).slice(0, 8): every element is converted before the cut
MapString(m) ==
  IF \E i \in 1..Len(m) : Thrown(m[i]) THEN TypeError ELSE JArr(Slice0(m, ListMax))

\* Array.isArray(v) ? v.map(String).slice(0, 8) : []
ListOf(v) ==
  IF v.t # "arr" THEN JArr(<<>>) ELSE MapString([i \in 1..Len(v.a) |-> String(v.a[i])])

ListField(rep, key) == ListOf(Get(rep, key))

\* The three questions of the backfill, in the order of the source
CannedQuestions == <<JStr(CannedService), JStr(CannedAccident), JStr(CannedFinance)>>

\* The backfill with its threshold off by one: a list of exactly 3 questions
\* is backfilled too
BackfillOffByOne(q) ==
  IF Len(q) <= MinQuestions THEN Slice0(q \o CannedQuestions, ListMax) ELSE q

\* if (q.length < 3) q = q.concat([...three questions...]).slice(0, 8)
Backfill(q) ==
  IF Len(q) < MinQuestions THEN Slice0(q \o CannedQuestions, ListMax) ELSE q

ReportKeys ==
  {K_vehicle_title, K_lens_score, K_summary, K_market_value_estimate,
   K_red_flags, K_questions_to_ask}

\* The object `cleaned`, or the TypeError thrown while it was built
CleanedOf(title, score, summ, mkt, flags, qs) ==
  IF \E x \in {title, score, summ, mkt, flags, qs} : Thrown(x) THEN TypeError
  ELSE JObj([k \in ReportKeys |->
               CASE k = K_vehicle_title -> title
                 [] k = K_lens_score -> score
                 [] k = K_summary -> summ
                 [] k = K_market_value_estimate -> mkt
                 [] k = K_red_flags -> flags
                 [] k = K_questions_to_ask -> JArr(Backfill(qs.a))])

Cleaned(rep) ==
  CleanedOf(TextField(rep, K_vehicle_title, UnknownVehicle, TitleMax),
            ScoreField(rep),
            TextField(rep, K_summary, NoSummary, SummaryMax),
            TextField(rep, K_market_value_estimate, UnknownValue, MarketMax),
            ListField(rep, K_red_flags),
            ListField(rep, K_questions_to_ask))

\* extractJson(text) of analyzeListing.js; null is JNull
\* try { return JSON.parse(...) } catch (_) {} ... return null
OrNull(parsed) == IF Thrown(parsed) THEN JNull ELSE parsed

\* 2) find first {...} block
BraceSpan(text, start, end) ==
  IF start # -1 /\ end # -1 /\ end > start
    THEN OrNull(JSONParse(Slice(text, start, end + 1)))
  ELSE JNull

\* 1) direct parse
DirectOrSpan(text, direct) ==
  IF ~Thrown(direct) THEN direct
  ELSE BraceSpan(text, IndexOf(text, "{"), LastIndexOf(text, "}"))

extractJson(text) ==
  IF text = <<>> THEN JNull ELSE DirectOrSpan(text, JSONParse(text))

\* text.replace(/```json/g, "").replace(/```/g, "").trim() of index.js
StripFences(text) == Trim(RemoveAll(RemoveAll(text, FenceJson), Fence))

----------------------------------------------------------------------------
(* Requests *)

Handlers == {"netlify", "multi", "firebase"}

\* A base64 payload is known to the handlers by its type and length only
StrImage(n) == [t |-> "str", length |-> n]
NumImage == [t |-> "num", m |-> 5, e |-> 0]
SmallImage == StrImage(SmallImageLength)
LargeImage == StrImage(MaxImageLength + 1)

\* !v for a payload value
ImageFalsy(v) == v.t = "undefined" \/ (v.t = "str" /\ v.length = 0)

ImageValues ==
  {Undefined, NumImage, StrImage(0), SmallImage, StrImage(MaxImageLength), LargeImage}

\* Image lists: up to MaxRequestImages small images, the last one possibly
\* replaced by a payload the validation must refuse
ImageLists ==
  {JArr([i \in 1..n |-> SmallImage]) : n \in 0..MaxRequestImages}
    \cup {JArr([i \in 1..n |-> IF i = n THEN bad ELSE SmallImage]) :
            n \in 1..MaxRequestImages, bad \in {NumImage, LargeImage}}

HttpEvents(field, values) ==
  {[httpMethod |-> m, hasKey |-> k, bodyValid |-> b, payload |-> [f \in {field} |-> v]] :
     m \in {"POST", "OPTIONS", "GET"}, k \in BOOLEAN, b \in BOOLEAN, v \in values}

NetlifyRequests == HttpEvents("imageBase64", ImageValues)

MultiRequests == HttpEvents("imagesBase64", ImageLists \cup {Undefined})

FirebaseRequests ==
  {[data |-> [images |-> l, imageBase64 |-> Undefined]] : l \in ImageLists \cup {SmallImage}}
    \cup {[data |-> [images |-> Undefined, imageBase64 |-> v]] :
            v \in {Undefined, StrImage(0), SmallImage}}
    \cup {[data |-> [images |-> JArr(<<>>), imageBase64 |-> SmallImage]]}

RequestsOf(h) ==
  CASE h = "netlify" -> NetlifyRequests
    [] h = "multi" -> MultiRequests
    [] h = "firebase" -> FirebaseRequests

----------------------------------------------------------------------------
(* Replies of the model gateway *)

\* JSON.stringify of a value (keys in some fixed order)
RECURSIVE Stringify(_), StringifyElements(_, _), StringifyMembers(_, _)

StringifyElements(a, i) ==
  IF i > Len(a) THEN <<>>
  ELSE (IF i > 1 THEN <<",">> ELSE <<>>) \o Stringify(a[i]) \o StringifyElements(a, i + 1)

StringifyMembers(o, keys) ==
  IF keys = {} THEN <<>>
  ELSE LET k == CHOOSE x \in keys : TRUE
       IN  <<"\"">> \o k \o <<"\"", ":">> \o Stringify(o[k])
             \o (IF keys = {k} THEN <<>> ELSE <<",">>)
             \o StringifyMembers(o, keys \ {k})

Stringify(v) ==
  CASE v.t = "null" -> S_null
    [] v.t = "bool" -> IF v.b THEN S_true ELSE S_false
    [] v.t = "num" -> NumberToString(v)
    [] v.t = "str" -> <<"\"">> \o v.s \o <<"\"">>
    [] v.t = "arr" -> <<"[">> \o StringifyElements(v.a, 1) \o <<"]">>
    [] v.t = "obj" -> <<"{">> \o StringifyMembers(v.o, DOMAIN v.o) \o <<"}">>

Rep(c, n) == [i \in 1..n |-> c]

T_Hilux ==
  <<"2","0","1","9"," ","T","o","y","o","t","a"," ","H","i","l","u","x">>

T_Solid ==
  <<"S","o","l","i","d"," ","t","r","u","c","k",".">>

T_Price ==
  <<"$","2","8","k","-","$","3","3","k">>

T_Accidents ==
  <<"A","n","y"," ","a","c","c","i","d","e","n","t","s","?">>

T_NA ==
  <<"N","/","A">>

T_abc ==
  <<"a","b","c">>

T_12 ==
  <<"1","2">>

T_HereYouGo ==
  <<"H","e","r","e"," ","y","o","u"," ","g","o",":"," ">>

T_Thanks ==
  <<" ","T","h","a","n","k","s","!">>

T_NoJson ==
  <<"N","o"," ","J","S","O","N"," ","h","e","r","e"," ","a","t"," ","a","l","l",".">>

\* An object with the one member key: value
Single(key, value) == JObj([k \in {key} |-> value])

\* The list "q1", ..., "qn"
Questions(n) == JArr([i \in 1..n |-> JStr(<<"q">> \o NatToString(i))])

Shadowed == Single(K_toString, JNum(1))

FieldValues ==
  {JNull, JBool(TRUE), JBool(FALSE),
   JNum(0), JNum(-10), JNum(ScoreDefault), JNum(85), Dec(855, 1), JNum(ScoreMax), JNum(999),
   JStr(<<>>), JStr(T_abc), JStr(T_NA), JStr(T_12), JStr(T_Hilux),
   JStr(Rep("a", TitleMax + 1)), JStr(Rep("b", SummaryMax + 1)), JStr(Rep("c", MarketMax + 1)),
   JArr(<<JStr(<<>>)>>), JArr(<<JNum(7)>>), JArr(<<JNull, JNum(1), JStr(T_abc)>>),
   JArr(<<EmptyObj, JArr(<<JNum(1), JNum(2)>>)>>), JArr(<<Shadowed>>),
   EmptyObj, Shadowed}
    \cup {Questions(n) : n \in 0..MaxListLen}

FieldKeys == ReportKeys \cup {K_mechanic_questions}

\* The reply of the first scenario of the listing report
HiluxReport ==
  JObj([k \in ReportKeys |->
          CASE k = K_vehicle_title -> JStr(T_Hilux)
            [] k = K_lens_score -> JNum(85)
            [] k = K_summary -> JStr(T_Solid)
            [] k = K_market_value_estimate -> JStr(T_Price)
            [] k = K_red_flags -> JArr(<<>>)
            [] k = K_questions_to_ask -> JArr(<<JStr(T_Accidents)>>)])

\* The JSON values the model may reply with
Candidates ==
  {Single(k, v) : k \in FieldKeys, v \in FieldValues}
    \cup {HiluxReport, EmptyObj, JNull, JBool(TRUE), JBool(FALSE), JNum(0), JNum(7),
          JStr(<<>>), JStr(T_abc), JArr(<<>>), JArr(<<HiluxReport>>)}

\* What surrounds the JSON in a reply: nothing, prose, code fences, a stray
\* brace, or brackets that make the whole reply an array
Wrappers ==
  {<< <<>>, <<>> >>,
   <<T_HereYouGo, T_Thanks>>,
   <<FenceJson \o <<"\n">>, <<"\n">> \o Fence>>,
   <<Fence \o <<"\n">>, <<"\n">> \o Fence>>,
   <<T_HereYouGo \o FenceJson \o <<"\n">>, <<"\n">> \o Fence \o T_Thanks>>,
   << <<"{", " ">>, <<>> >>,
   << <<>>, <<" ", "}">> >>,
   << <<"[">>, <<"]">> >>}

\* Replies that hold no JSON at all
Unparseable ==
  {<<>>, <<" ">>, T_NoJson, <<"}", " ", "{">>, <<"{">>, Rep("x", RawPreviewMax),
   Rep("x", RawPreviewMax + 1)}

GatewayTexts ==
  {w[1] \o Stringify(c) \o w[2] : w \in Wrappers, c \in Candidates} \cup Unparseable

----------------------------------------------------------------------------
(* Errors and responses *)

ProviderError == [t |-> "throw", name |-> "ProviderError"]

\* err.message
MessageOf(err) == <<"message of", err.name>>

NoOutcome == [kind |-> "none"]

\* response(statusCode, bodyObj) of analyzeListing.js
response(statusCode, bodyObj) ==
  [kind |-> "response", statusCode |-> statusCode, body |-> bodyObj]

\* return value of the callable of index.js
Returned(value) == [kind |-> "return", value |-> value]

\* throw new HttpsError(code, message)
HttpsError(code, message) == [kind |-> "throw", code |-> code, message |-> message]

----------------------------------------------------------------------------
(* The handlers.  Each runs to its one suspension point, the gateway call,    *)
(* and from the gateway's answer to its end.                                 *)

Init ==
  /\ handler \in Handlers
  /\ request \in RequestsOf(handler)
  /\ pc = "received"
  /\ gatewayCalls = 0
  /\ gatewayResult = "none"
  /\ outText = <<>>
  /\ report = Undefined
  /\ outcome = NoOutcome

Finish(o) ==
  /\ pc' = "done"
  /\ outcome' = o

InvokeGateway ==
  /\ pc' = "awaiting"
  /\ gatewayCalls' = gatewayCalls + 1
  /\ UNCHANGED outcome

\* The checks both Netlify handlers make before they look at the images
Preamble(event, missingKey) ==
  IF event.httpMethod = "OPTIONS" THEN response(200, [ok |-> TRUE])
  ELSE IF event.httpMethod # "POST" THEN response(405, [error |-> "Method Not Allowed"])
  ELSE IF ~event.hasKey THEN response(500, [error |-> missingKey])
  ELSE IF ~event.bodyValid THEN response(400, [error |-> "Invalid JSON body"])
  ELSE NoOutcome

\* analyzeListing.js, from the request to the gateway call
NetlifyImage(imageBase64) ==
  IF ImageFalsy(imageBase64) \/ imageBase64.t # "str"
    THEN response(400, [error |-> "imageBase64 is required"])
  ELSE IF imageBase64.length > MaxImageLength
    THEN response(413, [error |-> "Image too large. Use a smaller screenshot."])
  ELSE NoOutcome

NetlifyPreamble(event) ==
  Preamble(event, "Missing OPENAI_API_KEY in environment variables")

NetlifyValidation(event) ==
  IF NetlifyPreamble(event) # NoOutcome THEN NetlifyPreamble(event)
  ELSE NetlifyImage(event.payload.imageBase64)

\* part_000: the first image the loop refuses, 0 when it refuses none
FirstRefused(images) ==
  LET B == {i \in 1..Len(images) :
              images[i].t # "str" \/ images[i].length > MaxImageLength}
  IN  IF B = {} THEN 0 ELSE Min(B)

\* part_000, from the request to the gateway call
\* The answer of the size-guard loop that stopped at image i
MultiRefusal(images, i) ==
  IF i = 0 THEN NoOutcome
  ELSE IF images[i].t # "str"
    THEN response(400, [error |-> "All images must be base64 strings"])
  ELSE response(413, [error |-> "One of the images is too large."])

MultiImages(imagesBase64) ==
  IF imagesBase64.t # "arr" \/ Len(imagesBase64.a) = 0
    THEN response(400, [error |-> "imagesBase64 must be a non-empty array"])
  ELSE IF Len(imagesBase64.a) > MaxImages
    THEN response(400, [error |-> "Maximum 4 images allowed"])
  ELSE MultiRefusal(imagesBase64.a, FirstRefused(imagesBase64.a))

MultiPreamble(event) == Preamble(event, "Missing OPENAI_API_KEY")

MultiValidation(event) ==
  IF MultiPreamble(event) # NoOutcome THEN MultiPreamble(event)
  ELSE MultiImages(event.payload.imagesBase64)

\* What both Netlify handlers do with the gateway's text
NetlifyRespond(cleaned) ==
  IF Thrown(cleaned)
    THEN response(500, [error |-> "Analysis failed", message |-> MessageOf(cleaned)])
  ELSE response(200, [data |-> cleaned])

NetlifyFinish(text, rep) ==
  IF ~Truthy(rep)
    THEN response(502, [error |-> "Model returned non-JSON output",
                        raw |-> Slice0(text, RawPreviewMax)])
  ELSE NetlifyRespond(Cleaned(rep))

\* Answer at once when the validation refused the request, call the gateway
\* otherwise
Validated(refusal) ==
  IF refusal = NoOutcome THEN InvokeGateway ELSE Finish(refusal) /\ UNCHANGED gatewayCalls

NetlifyReceive ==
  /\ handler = "netlify" /\ pc = "received"
  /\ Validated(NetlifyValidation(request))
  /\ UNCHANGED <<handler, request, gatewayResult, outText, report>>

MultiReceive ==
  /\ handler = "multi" /\ pc = "received"
  /\ Validated(MultiValidation(request))
  /\ UNCHANGED <<handler, request, gatewayResult, outText, report>>

NetlifyParsed(text, rep) ==
  /\ gatewayResult' = "text"
  /\ outText' = text
  /\ report' = rep
  /\ Finish(NetlifyFinish(text, rep))

\* client.responses.create resolved: resp.output_text || "" is text
NetlifyResolved ==
  /\ handler \in {"netlify", "multi"} /\ pc = "awaiting"
  /\ \E text \in GatewayTexts : NetlifyParsed(text, extractJson(text))
  /\ UNCHANGED <<handler, request, gatewayCalls>>

\* client.responses.create rejected: the catch block
NetlifyRejected ==
  /\ handler \in {"netlify", "multi"} /\ pc = "awaiting"
  /\ gatewayResult' = "error"
  /\ Finish(response(500, [error |-> "Analysis failed", message |-> MessageOf(ProviderError)]))
  /\ UNCHANGED <<handler, request, gatewayCalls, outText, report>>

\* The images index.js takes from the request: data.images, else the single
\* data.imageBase64, else none
FirebaseImages(data) ==
  IF ~ImageFalsy(data.images) THEN data.images
  ELSE IF ~ImageFalsy(data.imageBase64) THEN JArr(<<data.imageBase64>>)
  ELSE Undefined

FirebaseStart(images) ==
  IF images = Undefined
    THEN /\ Finish(HttpsError("invalid-argument", "Image data missing."))
         /\ UNCHANGED gatewayCalls
  ELSE IF images.t # "arr"
    \* images.forEach is not a function: thrown inside the try block
    THEN /\ Finish(HttpsError("internal", <<"Gemini Error: ", MessageOf(TypeError)>>))
         /\ UNCHANGED gatewayCalls
  ELSE InvokeGateway

\* index.js, from the request to the gateway call
FirebaseReceive ==
  /\ handler = "firebase" /\ pc = "received"
  /\ FirebaseStart(FirebaseImages(request.data))
  /\ UNCHANGED <<handler, request, gatewayResult, outText, report>>

FirebaseParsed(text, parsed) ==
  /\ gatewayResult' = "text"
  /\ outText' = text
  /\ IF Thrown(parsed)
       THEN /\ Finish(HttpsError("internal", <<"Gemini Error: ", MessageOf(parsed)>>))
            /\ UNCHANGED report
     ELSE /\ Finish(Returned([success |-> TRUE, data |-> parsed]))
          /\ report' = parsed

\* model.generateContent resolved with text
FirebaseResolved ==
  /\ handler = "firebase" /\ pc = "awaiting"
  /\ \E text \in GatewayTexts : FirebaseParsed(text, JSONParse(StripFences(text)))
  /\ UNCHANGED <<handler, request, gatewayCalls>>

\* model.generateContent rejected: the catch block
FirebaseRejected ==
  /\ handler = "firebase" /\ pc = "awaiting"
  /\ gatewayResult' = "error"
  /\ Finish(HttpsError("internal", <<"Gemini Error: ", MessageOf(ProviderError)>>))
  /\ UNCHANGED <<handler, request, gatewayCalls, outText, report>>

Next ==
  \/ NetlifyReceive
  \/ MultiReceive
  \/ NetlifyResolved
  \/ NetlifyRejected
  \/ FirebaseReceive
  \/ FirebaseResolved
  \/ FirebaseRejected

Spec == Init /\ [][Next]_vars

----------------------------------------------------------------------------
(* Outcomes of a request *)

NetlifyHandlers == {"netlify", "multi"}

\* A success response carrying data
IsSuccess(o) ==
  \/ o.kind = "response" /\ o.statusCode = 200 /\ "data" \in DOMAIN o.body
  \/ o.kind = "return" /\ o.value.success

SuccessData(o) == IF o.kind = "response" THEN o.body.data ELSE o.value.data

IsInvalidInput(o) ==
  \/ o.kind = "response" /\ o.statusCode \in {400, 413}
  \/ o.kind = "throw" /\ o.code = "invalid-argument"

IsProviderFailure(o) ==
  \/ o.kind = "response" /\ o.statusCode = 500 /\ "message" \in DOMAIN o.body
  \/ o.kind = "throw" /\ o.code = "internal"

IsExtractionFailure(o) ==
  o.kind = "response" /\ o.statusCode = 502 /\ "raw" \in DOMAIN o.body

\* The images of the request, as the handler reads them
RequestImages ==
  CASE handler = "netlify" ->
         IF request.payload.imageBase64 = Undefined THEN JArr(<<>>)
         ELSE JArr(<<request.payload.imageBase64>>)
    [] handler = "multi" -> request.payload.imagesBase64
    [] handler = "firebase" ->
         IF FirebaseImages(request.data) = Undefined THEN JArr(<<>>)
         ELSE FirebaseImages(request.data)

\* The image sequences the transport contract refuses: empty, more than 4
\* elements, an element that is no string or is too long
InvalidImages(v) ==
  /\ v.t = "arr"
  /\ \/ Len(v.a) = 0
     \/ Len(v.a) > MaxImages
     \/ \E i \in 1..Len(v.a) : v.a[i].t # "str" \/ v.a[i].length > MaxImageLength

\* The request got as far as the image checks
PastPreamble == handler = "firebase" \/ MultiPreamble(request) = NoOutcome

IsText(v, max) == v.t = "str" /\ Len(v.s) <= max

IsTextList(v, min, max) ==
  /\ v.t = "arr"
  /\ Len(v.a) >= min /\ Len(v.a) <= max
  /\ \A i \in 1..Len(v.a) : v.a[i].t = "str"

\* The invariants of the ListingReport table
ValidReport(d) ==
  /\ d.t = "obj"
  /\ ReportKeys \subseteq DOMAIN d.o
  /\ IsText(d.o[K_vehicle_title], TitleMax) /\ d.o[K_vehicle_title].s # <<>>
  /\ d.o[K_lens_score].t = "num" /\ d.o[K_lens_score].e = 0
  /\ d.o[K_lens_score].m >= ScoreMin /\ d.o[K_lens_score].m <= ScoreMax
  /\ IsText(d.o[K_summary], SummaryMax)
  /\ IsText(d.o[K_market_value_estimate], MarketMax)
  /\ IsTextList(d.o[K_red_flags], 0, ListMax)
  /\ IsTextList(d.o[K_questions_to_ask], MinQuestions, ListMax)

\* The normalization block ran to its end on the extracted candidate
Coerced ==
  /\ pc = "done" /\ handler \in NetlifyHandlers /\ gatewayResult = "text"
  /\ IsSuccess(outcome)

\* The parse of the first "{" to the last "}" of a text, JNull when there is
\* no such span or it is not JSON
SpanParse(text) == BraceSpan(text, IndexOf(text, "{"), LastIndexOf(text, "}"))

----------------------------------------------------------------------------
(* Claims *)

\* C1: every report the coercion step produces satisfies all invariants of
\* the ListingReport table: vehicle_title non-empty text of at most 120
\* characters, lens_score an integer in [0, 100], summary at most 500,
\* market_value_estimate at most 80, red_flags at most 8 elements,
\* questions_to_ask between 3 and 8 elements.
C1_CoerceInvariants == Coerced => ValidReport(outcome.body.data)

\* C2: coercion never fails: whenever the gateway returned text and
\* extraction produced a candidate, the handler ends with the success
\* outcome carrying a report.
C2_CoercionNeverFails ==
  (pc = "done" /\ handler \in NetlifyHandlers /\ gatewayResult = "text" /\ Truthy(report))
    => IsSuccess(outcome)

\* C3: coercion is idempotent: applied to the report it produced, it yields
\* that same report, field by field.
C3_Idempotent == Coerced => Cleaned(outcome.body.data) = outcome.body.data

\* C4: in every handler, when the substring from the first "{" to the last
\* "}" of the model text is a valid JSON object, extraction returns exactly
\* that object.
C4_SpanRecovered ==
  (pc = "done" /\ gatewayResult = "text" /\ SpanParse(outText).t = "obj")
    => report = SpanParse(outText)

\* C5: when neither the direct parse nor the brace-span parse of the model
\* text yields JSON, the request ends with the ExtractionFailure outcome,
\* whose raw field is the first 2000 characters of the text (all of it when
\* it is shorter), and no report is returned.
C5_ExtractionFailure ==
  (pc = "done" /\ gatewayResult = "text"
     /\ Thrown(JSONParse(outText)) /\ SpanParse(outText) = JNull)
    => /\ IsExtractionFailure(outcome)
       /\ outcome.body.raw = Slice0(outText, RawPreviewMax)
       /\ ~IsProviderFailure(outcome)

\* C6: in every handler, a request whose image sequence is empty, longer
\* than 4, or holds an element that is no string or is longer than
\* 12,000,000 characters never reaches the gateway and ends with the
\* InvalidInput outcome.
C6_ValidatedBeforeGateway ==
  (PastPreamble /\ InvalidImages(RequestImages))
    => /\ gatewayCalls = 0
       /\ pc = "done" => IsInvalidInput(outcome)

\* C7: in every handler, the data of a success response is a fully valid
\* ListingReport, produced after the gateway returned text.
C7_SuccessIsValidReport ==
  (pc = "done" /\ IsSuccess(outcome))
    => gatewayResult = "text" /\ ValidReport(SuccessData(outcome))

\* The lens_score the contract describes: 50 when the field converts to no
\* number, the converted number clamped to [0, 100] otherwise
ContractScore(n) ==
  IF n.t = "nan" THEN JNum(ScoreDefault)
  ELSE IF n.m < 0 THEN JNum(ScoreMin)
  ELSE IF NumLess(JNum(ScoreMax), n) THEN JNum(ScoreMax)
  ELSE n

\* C8: the coerced lens_score is 50 when the field converts to no number,
\* and otherwise the converted number clamped to [0, 100]; a number already
\* in [0, 100], 0 included, is returned unchanged.
C8_ScoreDefaultAndClamp ==
  Coerced => outcome.body.data.o[K_lens_score] = ContractScore(ToNumber(Get(report, K_lens_score)))

\* The first 8 elements of the source list, each as a string; empty when the
\* field is absent or no list
SourceQuestions(rep) ==
  IF Get(rep, K_questions_to_ask).t # "arr" THEN <<>>
  ELSE [i \in 1..(IF Len(Get(rep, K_questions_to_ask).a) < ListMax
                    THEN Len(Get(rep, K_questions_to_ask).a) ELSE ListMax) |->
          String(Get(rep, K_questions_to_ask).a[i])]

\* C9: questions_to_ask is the source list, stringified and cut to 8,
\* unchanged when it has 3 or more elements; with k < 3 elements it is those k
\* elements followed by the three canned questions in the order service
\* history, accident/insurance, finance/title: k + 3 elements.
C9_QuestionsBackfill ==
  Coerced =>
    outcome.body.data.o[K_questions_to_ask].a =
      IF Len(SourceQuestions(report)) >= 3 THEN SourceQuestions(report)
      ELSE SourceQuestions(report) \o <<JStr(CannedService), JStr(CannedAccident), JStr(CannedFinance)>>

\* C9 witness: the one question of the reply, then the three canned ones
C9_Witness ==
  /\ Coerced
  /\ Get(report, K_questions_to_ask) = JArr(<<JStr(T_Accidents)>>)
  /\ Len(outcome.body.data.o[K_questions_to_ask].a) = 4

\* C10: a request whose gateway call was made ends with the ProviderFailure
\* outcome if and only if that call failed: no failure after the gateway
\* returned text is reported as a ProviderFailure.  The gateway is called at
\* most once, and after its failure nothing is extracted.
C10_ProviderFailureIffGatewayFailed ==
  /\ gatewayCalls <= 1
  /\ gatewayResult = "error" => report = Undefined
  /\ (pc = "done" /\ gatewayResult # "none")
       => (IsProviderFailure(outcome) <=> gatewayResult = "error")

=============================================================================
